---- MODULE Spec2Model ----
(***************************************************************************)
(* Model of GroupByCTRL/GroupedList.tsx (the guarded component variant,    *)
(* lines 1-416): the pure functions makeGroups and makeColumnAndItems and  *)
(* the GroupedListComp component with its effect chain.                    *)
(***************************************************************************)
EXTENDS Integers, Sequences, FiniteSets, TLC

(***************************************************************************)
(* Bounds of the model.                                                    *)
(***************************************************************************)
MaxRows == 3
MaxCompRows == 2

(***************************************************************************)
(* JavaScript values.  Every value is a string; the value `undefined` is   *)
(* a distinguished string.  "" and undefined are the falsy values.         *)
(***************************************************************************)
Undefined == "<undefined>"

Truthy(v) == v # "" /\ v # Undefined

\* a || undefined
OrUndefined(v) == IF Truthy(v) THEN v ELSE Undefined

\* a ?? ""
NullishToEmpty(v) == IF v = Undefined THEN "" ELSE v

Range(s) == { s[i] : i \in DOMAIN s }

RECURSIVE SumSeq(_)
SumSeq(s) == IF s = << >> THEN 0 ELSE Head(s) + SumSeq(Tail(s))

(***************************************************************************)
(* new Set<string>().add(v): insertion order, no duplicates.               *)
(***************************************************************************)
\* a collection that puts a new value in front
SetAddFront(set, v) == IF v \in Range(set) THEN set ELSE << v >> \o set

SetAdd(set, v) == IF v \in Range(set) THEN set ELSE Append(set, v)

(***************************************************************************)
(* Own property keys of a plain object (Object.keys): keys that are array  *)
(* indices come first in ascending numeric order, the other string keys    *)
(* follow in insertion order.                                              *)
(***************************************************************************)
ArrayIndexValue ==
  ("0" :> 0) @@ ("1" :> 1) @@ ("2" :> 2) @@ ("3" :> 3) @@ ("4" :> 4) @@
  ("5" :> 5) @@ ("6" :> 6) @@ ("7" :> 7) @@ ("8" :> 8) @@ ("9" :> 9)

IsArrayIndex(k) == k \in DOMAIN ArrayIndexValue

\* the keys of an object after the assignment obj[k] = ...
ObjectKeysAdd(keys, k) ==
  IF k \in Range(keys) THEN keys
  ELSE IF IsArrayIndex(k)
       THEN LET before == Cardinality({ i \in DOMAIN keys :
                              /\ IsArrayIndex(keys[i])
                              /\ ArrayIndexValue[keys[i]] < ArrayIndexValue[k] })
            IN SubSeq(keys, 1, before) \o << k >> \o SubSeq(keys, before + 1, Len(keys))
       ELSE Append(keys, k)

(***************************************************************************)
(* The record set (ComponentFramework.PropertyTypes.DataSet).  A record    *)
(* holds a formatted and a raw value per column; a column it does not hold *)
(* reads as the empty string.                                              *)
(***************************************************************************)
getFormattedValue(record, columnName) ==
  IF columnName \in DOMAIN record.fmt THEN record.fmt[columnName] ELSE ""

getValue(record, columnName) ==
  IF columnName \in DOMAIN record.raw THEN record.raw[columnName] ELSE Undefined

\* !dataset || !Array.isArray(dataset.sortedRecordIds) || !dataset.records
MalformedForGroups(dataset) ==
  \/ ~dataset.defined
  \/ ~dataset.idsIsArray
  \/ ~dataset.hasRecords

\* ... || !Array.isArray(dataset.columns)
MalformedForItems(dataset) ==
  \/ MalformedForGroups(dataset)
  \/ ~dataset.columnsIsArray

(***************************************************************************)
(* makeGroups                                                              *)
(***************************************************************************)
\* lines 60-67: the distinct truthy level-1 values in first-seen order
RECURSIVE UniqueLevel1Values(_, _, _, _)
UniqueLevel1Values(dataset, level1, i, acc) ==
  IF i > Len(dataset.sortedRecordIds) THEN acc
  ELSE LET record == dataset.records[dataset.sortedRecordIds[i]]
           value1 == getFormattedValue(record, level1)
       IN UniqueLevel1Values(dataset, level1, i + 1,
                             IF Truthy(value1) THEN SetAdd(acc, value1) ELSE acc)

\* lines 72-82: the distinct truthy level-2 values among the rows of value1
RECURSIVE UniqueLevel2Values(_, _, _, _, _, _)
UniqueLevel2Values(dataset, level1, level2, value1, i, acc) ==
  IF i > Len(dataset.sortedRecordIds) THEN acc
  ELSE LET record == dataset.records[dataset.sortedRecordIds[i]]
           value2 == getFormattedValue(record, level2)
           hit    == getFormattedValue(record, level1) = value1 /\ Truthy(value2)
       IN UniqueLevel2Values(dataset, level1, level2, value1, i + 1,
                             IF hit THEN SetAdd(acc, value2) ELSE acc)

\* MatchingItems filtering on the level-1 value alone
MatchingItemsLevel1Only(dataset, level1, level2, value1, value2) ==
  SelectSeq(dataset.sortedRecordIds,
            LAMBDA id : getFormattedValue(dataset.records[id], level1) = value1)

\* lines 86-92: the identifiers of the rows matching (value1, value2)
MatchingItems(dataset, level1, level2, value1, value2) ==
  SelectSeq(dataset.sortedRecordIds,
            LAMBDA id : /\ getFormattedValue(dataset.records[id], level1) = value1
                        /\ getFormattedValue(dataset.records[id], level2) = value2)

\* lines 97-102: the item makeGroups builds from a record (its own keys)
GroupDynamicItem(dataset, id) ==
  LET record == dataset.records[id]
  IN [ props |-> [ key \in DOMAIN record.fmt |->
                     OrUndefined(getFormattedValue(record, key)) ],
       row   |-> id ]

\* lines 106-113
Level2Group(value1, value2, startIndex, itemCount) ==
  [ key         |-> value1 \o "-" \o value2,
    name        |-> value2,
    startIndex  |-> startIndex,
    count       |-> itemCount,
    level       |-> 1,
    isCollapsed |-> TRUE ]

\* lines 85-116: one pass of uniqueLevel2Values.forEach; st carries
\* level2Groups, items and the running startIndex
RECURSIVE GenerateLevel2Groups(_, _, _, _, _, _, _)
GenerateLevel2Groups(dataset, level1, level2, value1, values2, j, st) ==
  IF j > Len(values2) THEN st
  ELSE LET value2        == values2[j]
           matchingItems == MatchingItems(dataset, level1, level2, value1, value2)
           itemCount     == Len(matchingItems)
           newItems      == [ n \in 1..itemCount |->
                                GroupDynamicItem(dataset, matchingItems[n]) ]
       IN GenerateLevel2Groups(dataset, level1, level2, value1, values2, j + 1,
            [ level2Groups |-> Append(st.level2Groups,
                                      Level2Group(value1, value2, st.startIndex, itemCount)),
              items        |-> st.items \o newItems,
              startIndex   |-> st.startIndex + itemCount ])

\* Level1Group starting at the cursor, the child counts not subtracted
Level1GroupAtCursor(value1, level2Groups, startIndex) ==
  LET itemCount == SumSeq([ n \in DOMAIN level2Groups |-> level2Groups[n].count ])
  IN [ key         |-> value1,
       name        |-> value1,
       startIndex  |-> startIndex,
       count       |-> itemCount,
       level       |-> 0,
       isCollapsed |-> TRUE,
       children    |-> level2Groups ]

\* lines 119-129
Level1Group(value1, level2Groups, startIndex) ==
  LET itemCount == SumSeq([ n \in DOMAIN level2Groups |-> level2Groups[n].count ])
  IN [ key         |-> value1,
       name        |-> value1,
       startIndex  |-> startIndex - itemCount,
       count       |-> itemCount,
       level       |-> 0,
       isCollapsed |-> TRUE,
       children    |-> level2Groups ]

\* lines 70-130: uniqueLevel1Values.forEach; st carries groups, items, startIndex
RECURSIVE GenerateLevel1Groups(_, _, _, _, _, _)
GenerateLevel1Groups(dataset, level1, level2, values1, k, st) ==
  IF k > Len(values1) THEN st
  ELSE LET value1  == values1[k]
           values2 == UniqueLevel2Values(dataset, level1, level2, value1, 1, << >>)
           inner   == GenerateLevel2Groups(dataset, level1, level2, value1, values2, 1,
                        [ level2Groups |-> << >>,
                          items        |-> st.items,
                          startIndex   |-> st.startIndex ])
       IN GenerateLevel1Groups(dataset, level1, level2, values1, k + 1,
            [ groups     |-> Append(st.groups,
                                    Level1Group(value1, inner.level2Groups, inner.startIndex)),
              items      |-> inner.items,
              startIndex |-> inner.startIndex ])

\* lines 46-133
makeGroups(dataset, level1, level2) ==
  IF MalformedForGroups(dataset)
  THEN [ threw |-> FALSE, groups |-> << >>, items |-> << >> ]
  ELSE LET values1 == UniqueLevel1Values(dataset, level1, 1, << >>)
           st      == GenerateLevel1Groups(dataset, level1, level2, values1, 1,
                        [ groups |-> << >>, items |-> << >>, startIndex |-> 0 ])
       IN [ threw |-> FALSE, groups |-> st.groups, items |-> st.items ]

(***************************************************************************)
(* makeColumnAndItems                                                      *)
(***************************************************************************)
\* ColumnDescriptor labelled with the internal name
ColumnDescriptorInternalName(column) ==
  [ name      |-> column.name,
    fieldName |-> column.name,
    minWidth  |-> column.visualSizeFactor,
    key       |-> column.name ]

\* lines 145-152
ColumnDescriptor(column) ==
  [ name      |-> column.displayName,
    fieldName |-> column.name,
    minWidth  |-> column.visualSizeFactor,
    key       |-> column.name ]

MapColumns(dataset) ==
  [ n \in DOMAIN dataset.columns |-> ColumnDescriptor(dataset.columns[n]) ]

\* lines 168-169: (level && record.getFormattedValue(level)) || ""
LevelValue(record, level) ==
  IF Truthy(level) /\ Truthy(getFormattedValue(record, level))
  THEN getFormattedValue(record, level)
  ELSE ""

\* lines 179-187: { id: id, ...Object.fromEntries(columns.map(...)) }; the
\* spread is written after id, so a column named "id" replaces it
RecordItem(dataset, id) ==
  LET record == dataset.records[id]
      names  == { dataset.columns[n].name : n \in DOMAIN dataset.columns }
      fromEntries == [ name \in names |-> OrUndefined(getValue(record, name)) ]
  IN [ props |-> fromEntries @@ ("id" :> id),
       row   |-> id ]

EmptyObject == [ keys |-> << >>, val |-> << >> ]

\* obj[k] = v
ObjectSet(obj, k, v) ==
  [ keys |-> ObjectKeysAdd(obj.keys, k),
    val  |-> (k :> v) @@ obj.val ]

\* obj[k], where a missing property reads as the given default
ObjectGet(obj, k, default) ==
  IF k \in Range(obj.keys) THEN obj.val[k] ELSE default

\* lines 166-188: dataset.sortedRecordIds.forEach building groupedRecords
RECURSIVE GroupRecords(_, _, _, _, _)
GroupRecords(dataset, level1, level2, i, groupedRecords) ==
  IF i > Len(dataset.sortedRecordIds) THEN groupedRecords
  ELSE LET id          == dataset.sortedRecordIds[i]
           record      == dataset.records[id]
           level1Value == LevelValue(record, level1)
           level2Value == LevelValue(record, level2)
           level1Group == ObjectGet(groupedRecords, level1Value, EmptyObject)
           bucket      == ObjectGet(level1Group, level2Value, << >>)
           newGroup    == ObjectSet(level1Group, level2Value,
                                    Append(bucket, RecordItem(dataset, id)))
       IN GroupRecords(dataset, level1, level2, i + 1,
                       ObjectSet(groupedRecords, level1Value, newGroup))

\* lines 194-200: { ...item, [level1Key]: level1Key, [level2Key]: level2Key }
FlattenedItem(item, level1Key, level2Key) ==
  [ props |-> (level2Key :> level2Key) @@ (level1Key :> level1Key) @@ item.props,
    row   |-> item.row ]

\* lines 193-201: Object.keys(level1Group).forEach
RECURSIVE FlattenLevel2(_, _, _, _)
FlattenLevel2(level1Key, level1Group, j, items) ==
  IF j > Len(level1Group.keys) THEN items
  ELSE LET level2Key == level1Group.keys[j]
           bucket    == level1Group.val[level2Key]
       IN FlattenLevel2(level1Key, level1Group, j + 1,
            items \o [ n \in DOMAIN bucket |->
                         FlattenedItem(bucket[n], level1Key, level2Key) ])

\* lines 190-202: Object.keys(groupedRecords).forEach
RECURSIVE FlattenLevel1(_, _, _)
FlattenLevel1(groupedRecords, k, items) ==
  IF k > Len(groupedRecords.keys) THEN items
  ELSE LET level1Key == groupedRecords.keys[k]
       IN FlattenLevel1(groupedRecords, k + 1,
            FlattenLevel2(level1Key, groupedRecords.val[level1Key], 1, items))

\* lines 136-205; dataset.columns.map at line 145 runs before the guard of
\* lines 157-164 and throws a TypeError when dataset or dataset.columns is
\* not there to be read
makeColumnAndItems(dataset, level1, level2, groups) ==
  IF ~dataset.defined \/ ~dataset.columnsIsArray
  THEN [ threw |-> TRUE, items |-> << >>, columns |-> << >> ]
  ELSE IF MalformedForItems(dataset)
  THEN [ threw |-> FALSE, items |-> << >>, columns |-> << >> ]
  ELSE [ threw   |-> FALSE,
         items   |-> FlattenLevel1(GroupRecords(dataset, level1, level2, 1, EmptyObject),
                                   1, << >>),
         columns |-> MapColumns(dataset) ]

(***************************************************************************)
(* Record sets the functions are applied to.                               *)
(***************************************************************************)
Col1 == [ name |-> "c1", displayName |-> "Account", visualSizeFactor |-> 100 ]
Col2 == [ name |-> "c2", displayName |-> "City",    visualSizeFactor |-> 150 ]
Col3 == [ name |-> "c3", displayName |-> "Owner",   visualSizeFactor |-> 200 ]

Level1Vals == { "", "A", "1", "id" }
Level2Vals == { "", "X", "1" }

RowId(i) == "r" \o ToString(i)

\* the raw value the host formats into f
RawValue(f) == IF f = "" THEN "" ELSE "#" \o f

MkRecord(names, pair) ==
  [ fmt |-> [ n \in names |-> IF n = "c1" THEN pair[1] ELSE pair[2] ],
    raw |-> [ n \in names |-> RawValue(IF n = "c1" THEN pair[1] ELSE pair[2]) ] ]

\* a well-formed record set of the rows (pairs of formatted values) given
MkDataset(rows, cols) ==
  [ defined         |-> TRUE,
    idsIsArray      |-> TRUE,
    hasRecords      |-> TRUE,
    columnsIsArray  |-> TRUE,
    sortedRecordIds |-> [ i \in DOMAIN rows |-> RowId(i) ],
    records         |-> [ id \in { RowId(i) : i \in DOMAIN rows } |->
                            MkRecord({ cols[n].name : n \in DOMAIN cols },
                                     rows[CHOOSE i \in DOMAIN rows : RowId(i) = id]) ],
    columns         |-> cols ]

RowSeqs(vals1, vals2, maxRows) ==
  UNION { [ 1..n -> vals1 \X vals2 ] : n \in 0..maxRows }

\* a record set with parts missing: dataset null, sortedRecordIds or columns
\* not an array, records missing
Malform(dataset, flags) ==
  [ dataset EXCEPT !.defined = flags[1], !.idsIsArray = flags[2],
                   !.hasRecords = flags[3], !.columnsIsArray = flags[4] ]

\* four rows with level-1 values A, A, B, B and level-2 values X, Y, X, X
ExampleRows == << << "A", "X" >>, << "A", "Y" >>, << "B", "X" >>, << "B", "X" >> >>

\* formatted values that contain the "-" of the leaf keys
SeparatorVals1 == { "A", "A-B" }
SeparatorVals2 == { "B", "C", "B-C" }

FnDatasets ==
  { MkDataset(rows, << Col1, Col2 >>) : rows \in RowSeqs(Level1Vals, Level2Vals, MaxRows) }
  \cup { MkDataset(ExampleRows, << Col1, Col2 >>) }
  \cup { MkDataset(rows, << Col1, Col2 >>) :
           rows \in RowSeqs(SeparatorVals1, SeparatorVals2, MaxRows) }
  \cup { MkDataset(<< <<"A", "X">> >>, cols) : cols \in { << Col2, Col1 >>, << Col3, Col1, Col2 >> } }
  \cup { Malform(MkDataset(<< <<"A", "X">> >>, << Col1, Col2 >>), flags) :
           flags \in BOOLEAN \X BOOLEAN \X BOOLEAN \X BOOLEAN }

FnLevelPairs ==
  { << "c1", "c2" >>, << "c2", "c1" >>, << "c1", "c1" >>, << "c1", "" >>, << "", "c2" >> }

(***************************************************************************)
(* State.  fn*: a call of makeGroups followed by makeColumnAndItems on one *)
(* input.  The others: the GroupedListComp instance, its props and React   *)
(* state, the Selection object, the host's record of the last              *)
(* setSelectedRecordIds call and of the last row activation.               *)
(***************************************************************************)
VARIABLES fnDataset, fnLevel1, fnLevel2, fnPc, fnGroups, fnResult,
          dataset, level1, level2, groups, items, columns, selectedRecordIds,
          selection, pending, dirty, hostSelectedRecordIds, activation

fnVars   == << fnDataset, fnLevel1, fnLevel2, fnPc, fnGroups, fnResult >>
compVars == << dataset, level1, level2, groups, items, columns, selectedRecordIds,
               selection, pending, dirty, hostSelectedRecordIds, activation >>
vars     == << fnVars, compVars >>

NoGroupsResult == [ threw |-> FALSE, groups |-> << >>, items |-> << >> ]
NoItemsResult  == [ threw |-> FALSE, items |-> << >>, columns |-> << >> ]

(***************************************************************************)
(* The functions applied to one input.                                     *)
(***************************************************************************)
CallMakeGroups ==
  /\ fnPc = "start"
  /\ fnGroups' = makeGroups(fnDataset, fnLevel1, fnLevel2)
  /\ fnPc' = "grouped"
  /\ UNCHANGED << fnDataset, fnLevel1, fnLevel2, fnResult, compVars >>

CallMakeColumnAndItems ==
  /\ fnPc = "grouped"
  /\ fnResult' = makeColumnAndItems(fnDataset, fnLevel1, fnLevel2, fnGroups.groups)
  /\ fnPc' = "projected"
  /\ UNCHANGED << fnDataset, fnLevel1, fnLevel2, fnGroups, compVars >>

(***************************************************************************)
(* The Selection object of the component (lines 234-244) as the component  *)
(* uses it: setItems(items, true), toggling a row, getSelection().  A      *)
(* change of the selected set calls onSelectionChanged.                    *)
(***************************************************************************)
EmptySelection == [ items |-> << >>, selected |-> {} ]

\* selection.getSelection(): the selected items in index order
GetSelection(sel) ==
  LET idx == SelectSeq([ i \in DOMAIN sel.items |-> i ], LAMBDA i : i \in sel.selected)
  IN [ n \in DOMAIN idx |-> sel.items[idx[n]] ]

\* lines 238-240: .map((item) => (item.id as string) ?? "")
SelectedIds(sel) ==
  LET selected == GetSelection(sel)
  IN [ n \in DOMAIN selected |-> NullishToEmpty(selected[n].props["id"]) ]

(***************************************************************************)
(* React state updates queued by setX calls, applied by the next render.   *)
(***************************************************************************)
NoUpdate    == [ set |-> FALSE, val |-> << >> ]
NoStrUpdate == [ set |-> FALSE, val |-> "" ]
NoPending ==
  [ groups |-> NoUpdate, items |-> NoUpdate, columns |-> NoUpdate,
    selectedRecordIds |-> NoUpdate, level1 |-> NoStrUpdate, level2 |-> NoStrUpdate ]

SetState(pend, name, value) == [ pend EXCEPT ![name] = [ set |-> TRUE, val |-> value ] ]

\* onSelectionChanged reading every item instead of the selected ones
onSelectionChangedAllItems(sel, pend) ==
  SetState(pend, "selectedRecordIds",
           [ n \in DOMAIN sel.items |-> NullishToEmpty(sel.items[n].props["id"]) ])

\* lines 237-242: onSelectionChanged
onSelectionChanged(sel, pend) == SetState(pend, "selectedRecordIds", SelectedIds(sel))

\* lines 222-224, 227-229, 263-264: dataset.columns[n]?.name || ""
ColumnNameAt(ds, n) ==
  IF n <= Len(ds.columns) /\ Truthy(ds.columns[n].name) THEN ds.columns[n].name ELSE ""

(***************************************************************************)
(* The effects, in declaration order.  r is the render they close over     *)
(* (props and state), c the mutable context they act on: the queued state  *)
(* updates, the Selection object and the host's selected identifiers.      *)
(***************************************************************************)
\* lines 246-259
GroupsEffect(r, c) ==
  IF ~Truthy(r.level1) \/ ~Truthy(r.level2)
  THEN [ c EXCEPT !.pending =
           SetState(SetState(SetState(@, "groups", << >>), "items", << >>),
                    "columns", << >>) ]
  ELSE [ c EXCEPT !.pending =
           SetState(@, "groups", makeGroups(r.dataset, r.level1, r.level2).groups) ]

\* lines 261-266
LevelsEffect(r, c) ==
  IF r.dataset.columnsIsArray
  THEN [ c EXCEPT !.pending =
           SetState(SetState(@, "level1", ColumnNameAt(r.dataset, 1)),
                    "level2", ColumnNameAt(r.dataset, 2)) ]
  ELSE c

\* lines 268-270
SelectedIdsEffect(r, c) == [ c EXCEPT !.host = r.selectedRecordIds ]

\* lines 272-274: selection.setItems(items, true) replaces the items and
\* clears the selection; clearing a non-empty selection is a change
SetItemsEffect(r, c) ==
  LET cleared == [ items |-> r.items, selected |-> {} ]
  IN [ c EXCEPT !.selection = cleared,
                !.pending = IF c.selection.selected # {}
                            THEN onSelectionChanged(cleared, @) ELSE @ ]

\* lines 276-283
ItemsEffect(r, c) ==
  IF Len(r.groups) > 0
  THEN LET made == makeColumnAndItems(r.dataset, r.level1, r.level2, r.groups)
       IN [ c EXCEPT !.pending =
              SetState(SetState(@, "items", made.items), "columns", made.columns) ]
  ELSE c

\* the effects run in declaration order, each when one of its dependencies
\* changed in the render
RunEffects(r, changed, c) ==
  LET c1 == IF changed \cap { "dataset", "level1", "level2" } # {}
            THEN GroupsEffect(r, c) ELSE c
      c2 == IF "dataset" \in changed THEN LevelsEffect(r, c1) ELSE c1
      c3 == IF changed \cap { "selectedRecordIds", "dataset" } # {}
            THEN SelectedIdsEffect(r, c2) ELSE c2
      c4 == IF "items" \in changed THEN SetItemsEffect(r, c3) ELSE c3
      c5 == IF changed \cap { "dataset", "level1", "level2", "groups" } # {}
            THEN ItemsEffect(r, c4) ELSE c4
  IN c5

AllDeps == { "dataset", "level1", "level2", "groups", "items", "selectedRecordIds" }

(***************************************************************************)
(* The component.                                                          *)
(***************************************************************************)
EntityName == "account"

NoActivation == [ active |-> FALSE, row |-> "", calls |-> << >> ]

CompLevel1Vals == { "", "A", "id" }
CompLevel2Vals == { "X" }
CompColumnSets == { << Col1, Col2 >>, << Col1 >> }

\* the record sets the host hands to the component
CompDatasets ==
  { MkDataset(rows, cols) :
      rows \in RowSeqs(CompLevel1Vals, CompLevel2Vals, MaxCompRows),
      cols \in CompColumnSets }

HasPending == \E name \in DOMAIN pending : pending[name].set

\* no effect is waiting to run and no state update is waiting to render
Quiescent == dirty = {} /\ ~HasPending

\* line 295: the inline message is rendered instead of the list
ShowsMessage == ~Truthy(level1) \/ ~Truthy(level2)

\* lines 314-324: the rows GroupedList renders are the items of the leaf groups
RenderedRows ==
  IF ShowsMessage THEN {}
  ELSE { i \in DOMAIN items :
           \E g \in Range(groups) : \E leaf \in Range(g.children) :
              leaf.startIndex < i /\ i <= leaf.startIndex + leaf.count }

\* the state a render commits: queued updates applied, the last one of each
\* state variable winning
Rendered(name, current) == IF pending[name].set THEN pending[name].val ELSE current

\* the dependencies whose identity the render changed: a set array state is a
\* new array, a set string state changed when its value did
ChangedDeps ==
  { name \in { "groups", "items", "selectedRecordIds" } : pending[name].set }
  \cup { name \in { "level1", "level2" } :
           pending[name].set /\ pending[name].val # (IF name = "level1" THEN level1 ELSE level2) }

CommitRender(newDataset, deps) ==
  /\ dataset' = newDataset
  /\ level1' = Rendered("level1", level1)
  /\ level2' = Rendered("level2", level2)
  /\ groups' = Rendered("groups", groups)
  /\ items' = Rendered("items", items)
  /\ columns' = Rendered("columns", columns)
  /\ selectedRecordIds' = Rendered("selectedRecordIds", selectedRecordIds)
  /\ pending' = NoPending
  /\ dirty' = deps
  /\ activation' = NoActivation
  /\ UNCHANGED << selection, hostSelectedRecordIds, fnVars >>

\* the host's updateView hands the component a new record set; events are
\* handled one at a time, each after the renders and effects of the last
UpdateView(newDataset) ==
  /\ Quiescent
  /\ CommitRender(newDataset, ChangedDeps \cup { "dataset" })

\* a render caused by queued state updates alone
Rerender ==
  /\ dirty = {}
  /\ HasPending
  /\ CommitRender(dataset, ChangedDeps)

\* the effects of the committed render run, in declaration order
FlushEffects ==
  /\ dirty # {}
  /\ LET r == [ dataset |-> dataset, level1 |-> level1, level2 |-> level2,
                groups |-> groups, items |-> items, columns |-> columns,
                selectedRecordIds |-> selectedRecordIds ]
         c == RunEffects(r, dirty, [ pending |-> pending, selection |-> selection,
                                     host |-> hostSelectedRecordIds ])
     IN /\ pending' = c.pending
        /\ selection' = c.selection
        /\ hostSelectedRecordIds' = c.host
  /\ dirty' = {}
  /\ activation' = NoActivation
  /\ UNCHANGED << dataset, level1, level2, groups, items, columns, selectedRecordIds, fnVars >>

\* lines 310-313, 356: a click on a rendered row toggles it in the Selection
ToggleSelect(i) ==
  /\ Quiescent
  /\ i \in RenderedRows
  /\ i \in DOMAIN selection.items
  /\ LET toggled == [ selection EXCEPT !.selected =
                        IF i \in @ THEN @ \ { i } ELSE @ \cup { i } ]
     IN /\ selection' = toggled
        /\ pending' = onSelectionChanged(toggled, pending)
  /\ activation' = NoActivation
  /\ UNCHANGED << dataset, level1, level2, groups, items, columns, selectedRecordIds,
                  dirty, hostSelectedRecordIds, fnVars >>

\* lines 285-290
openRecordForm(item) == [ entityName |-> EntityName, entityId |-> item.props["id"] ]

\* line 323: a double click on a rendered row; activation keeps the openForm
\* calls of the gesture and the row the activated item was projected from
DoubleClick(i) ==
  /\ Quiescent
  /\ i \in RenderedRows
  /\ activation' = [ active |-> TRUE, row |-> items[i].row,
                     calls |-> << openRecordForm(items[i]) >> ]
  /\ UNCHANGED << dataset, level1, level2, groups, items, columns, selectedRecordIds,
                  selection, pending, dirty, hostSelectedRecordIds, fnVars >>

IdleDataset == MkDataset(<< >>, << Col1, Col2 >>)

\* lines 218-232: the first render, before its effects have run
Init ==
  /\ dataset \in CompDatasets
  /\ level1 = ColumnNameAt(dataset, 1)
  /\ level2 = ColumnNameAt(dataset, 2)
  /\ groups = << >>
  /\ items = << >>
  /\ columns = << >>
  /\ selectedRecordIds = << >>
  /\ selection = EmptySelection
  /\ pending = NoPending
  /\ dirty = AllDeps
  /\ hostSelectedRecordIds = << >>
  /\ activation = NoActivation
  /\ fnDataset = IdleDataset
  /\ fnLevel1 = ""
  /\ fnLevel2 = ""
  /\ fnPc = "idle"
  /\ fnGroups = NoGroupsResult
  /\ fnResult = NoItemsResult

Next ==
  \/ FlushEffects
  \/ Rerender
  \/ \E newDataset \in CompDatasets : UpdateView(newDataset)
  \/ \E i \in 1..(MaxCompRows + 1) : ToggleSelect(i)
  \/ \E i \in 1..(MaxCompRows + 1) : DoubleClick(i)

Spec == Init /\ [][Next]_vars

\* the functions alone, on every input of the bounded sets
FnInit ==
  /\ fnDataset \in FnDatasets
  /\ \E pair \in FnLevelPairs : fnLevel1 = pair[1] /\ fnLevel2 = pair[2]
  /\ fnPc = "start"
  /\ fnGroups = NoGroupsResult
  /\ fnResult = NoItemsResult
  /\ dataset = IdleDataset
  /\ level1 = ""
  /\ level2 = ""
  /\ groups = << >>
  /\ items = << >>
  /\ columns = << >>
  /\ selectedRecordIds = << >>
  /\ selection = EmptySelection
  /\ pending = NoPending
  /\ dirty = {}
  /\ hostSelectedRecordIds = << >>
  /\ activation = NoActivation

FnNext == CallMakeGroups \/ CallMakeColumnAndItems

FnSpec == FnInit /\ [][FnNext]_vars

(***************************************************************************)
(* Properties of the functions (checked under FnSpec).                     *)
(***************************************************************************)
\* the leaves of a group tree in tree order, each with its parent's value
RECURSIVE LeafPairs(_)
LeafPairs(gs) ==
  IF gs = << >> THEN << >>
  ELSE [ n \in DOMAIN Head(gs).children |->
           [ value1 |-> Head(gs).name, leaf |-> Head(gs).children[n] ] ]
       \o LeafPairs(Tail(gs))

Counts(gs) == [ n \in DOMAIN gs |-> gs[n].count ]

FnWellFormed == ~MalformedForItems(fnDataset)

\* the rows of the input whose formatted value for a grouping key is falsy
FnDroppedRows ==
  { id \in Range(fnDataset.sortedRecordIds) :
      \/ ~Truthy(getFormattedValue(fnDataset.records[id], fnLevel1))
      \/ ~Truthy(getFormattedValue(fnDataset.records[id], fnLevel2)) }

\* C1: for two non-empty grouping keys the flattened items are as many as the
\* leaf counts add up to, and the slice [startIndex, startIndex + count) of
\* every leaf holds exactly the rows of the leaf's (level-1, level-2) pair, in
\* sortedRecordIds order.
C1_ItemsFollowGroups ==
  (fnPc = "projected" /\ FnWellFormed /\ Truthy(fnLevel1) /\ Truthy(fnLevel2)) =>
    LET leaves == LeafPairs(fnGroups.groups)
        its    == fnResult.items
    IN /\ Len(its) = SumSeq([ n \in DOMAIN leaves |-> leaves[n].leaf.count ])
       /\ \A n \in DOMAIN leaves :
            LET leaf == leaves[n].leaf
            IN /\ leaf.startIndex + leaf.count <= Len(its)
               /\ [ k \in 1..leaf.count |-> its[leaf.startIndex + k].row ]
                    = MatchingItems(fnDataset, fnLevel1, fnLevel2,
                                    leaves[n].value1, leaf.name)

\* C2: a row whose formatted value for either grouping key is falsy is counted
\* in no group of makeGroups and is no item of makeColumnAndItems.
C2_DroppedRowsNowhere ==
  (fnPc = "projected" /\ FnWellFormed) =>
    \A id \in FnDroppedRows :
      /\ \A n \in DOMAIN LeafPairs(fnGroups.groups) :
           LET p == LeafPairs(fnGroups.groups)[n]
           IN id \notin Range(MatchingItems(fnDataset, fnLevel1, fnLevel2,
                                            p.value1, p.leaf.name))
      /\ \A k \in DOMAIN fnResult.items : fnResult.items[k].row # id

\* C3: the counts of the level-0 nodes add up to the number of rows whose
\* formatted values for both grouping keys are non-empty.
C3_CountsSumToGroupedRows ==
  (fnPc # "start" /\ ~MalformedForGroups(fnDataset)) =>
    SumSeq(Counts(fnGroups.groups))
      = Cardinality({ i \in DOMAIN fnDataset.sortedRecordIds :
                        fnDataset.sortedRecordIds[i] \notin FnDroppedRows })

C3_Witness ==
  /\ fnPc = "grouped"
  /\ Len(fnGroups.groups) >= 2
  /\ SumSeq(Counts(fnGroups.groups)) = 2
  /\ FnDroppedRows # {}

\* C4: the index ranges tile a prefix of the naturals: a level-0 node's count
\* is the sum of its children's counts and its startIndex is its first
\* child's; the first leaf starts at 0 and every other leaf (and level-0 node)
\* starts where the one before it ends.
C4_RangesTile ==
  (fnPc # "start") =>
    LET gs     == fnGroups.groups
        leaves == LeafPairs(gs)
    IN /\ \A n \in DOMAIN gs :
            /\ gs[n].count = SumSeq(Counts(gs[n].children))
            /\ gs[n].children # << >> => gs[n].startIndex = gs[n].children[1].startIndex
            /\ gs[n].startIndex = IF n = 1 THEN 0
                                  ELSE gs[n - 1].startIndex + gs[n - 1].count
       /\ \A n \in DOMAIN leaves :
            leaves[n].leaf.startIndex =
              IF n = 1 THEN 0
              ELSE leaves[n - 1].leaf.startIndex + leaves[n - 1].leaf.count

C4_Witness ==
  /\ fnPc = "grouped"
  /\ Len(fnGroups.groups) = 2
  /\ Len(fnGroups.groups[1].children) = 2
  /\ fnGroups.groups[2].startIndex = 2
  /\ fnGroups.groups[2].count = 1

\* C6: on a malformed record set (dataset null, sortedRecordIds or columns
\* not an array, records missing) neither function throws: makeGroups returns
\* empty groups and items, makeColumnAndItems empty items and columns.
C6_MalformedReturnsEmpty ==
  (fnPc = "projected" /\ MalformedForItems(fnDataset)) =>
    /\ ~fnGroups.threw
    /\ MalformedForGroups(fnDataset) =>
         fnGroups.groups = << >> /\ fnGroups.items = << >>
    /\ ~fnResult.threw
    /\ fnResult.items = << >>
    /\ fnResult.columns = << >>

\* C9: for a well-formed record set the column descriptors are as many and in
\* the order of dataset.columns, and the i-th has name = displayName,
\* fieldName = key = name and minWidth = visualSizeFactor of the i-th column.
C9_ColumnsCarriedThrough ==
  (fnPc = "projected" /\ FnWellFormed) =>
    /\ Len(fnResult.columns) = Len(fnDataset.columns)
    /\ \A i \in DOMAIN fnDataset.columns :
         /\ fnResult.columns[i].name = fnDataset.columns[i].displayName
         /\ fnResult.columns[i].fieldName = fnDataset.columns[i].name
         /\ fnResult.columns[i].key = fnDataset.columns[i].name
         /\ fnResult.columns[i].minWidth = fnDataset.columns[i].visualSizeFactor

C9_Witness ==
  /\ fnPc = "projected"
  /\ FnWellFormed
  /\ Len(fnResult.columns) = 3
  /\ fnResult.columns[1].fieldName = "c3"
  /\ fnResult.columns[2].name = "Account"

\* the formatted value of the i-th row for a grouping key
FnValue(i, level) ==
  getFormattedValue(fnDataset.records[fnDataset.sortedRecordIds[i]], level)

\* the first row whose level-1 value is v
FnFirstRow1(v) ==
  LET rows == { i \in DOMAIN fnDataset.sortedRecordIds : FnValue(i, fnLevel1) = v }
  IN CHOOSE i \in rows : \A j \in rows : i <= j

\* the first row whose level-1 value is v and whose level-2 value is w
FnFirstRow2(v, w) ==
  LET rows == { i \in DOMAIN fnDataset.sortedRecordIds :
                  FnValue(i, fnLevel1) = v /\ FnValue(i, fnLevel2) = w }
  IN CHOOSE i \in rows : \A j \in rows : i <= j

\* C11: the level-0 nodes are the non-empty level-1 values in the order of
\* their first occurrence in sortedRecordIds, and the children of a node are
\* the non-empty level-2 values of its rows in the order of their first
\* occurrence among those rows; rows (A,X), (A,Y), (B,X), (B,X) give A with
\* X (startIndex 0, count 1) and Y (1, 1), then B with X (2, 2).
C11_FirstSeenOrder ==
  (fnPc # "start" /\ ~MalformedForGroups(fnDataset)) =>
    LET gs   == fnGroups.groups
        rows == DOMAIN fnDataset.sortedRecordIds
    IN /\ { gs[n].name : n \in DOMAIN gs }
            = { FnValue(i, fnLevel1) : i \in { j \in rows : Truthy(FnValue(j, fnLevel1)) } }
       /\ \A n, m \in DOMAIN gs :
            n < m => FnFirstRow1(gs[n].name) < FnFirstRow1(gs[m].name)
       /\ \A n \in DOMAIN gs :
            LET value1 == gs[n].name
                kids   == gs[n].children
            IN /\ { kids[a].name : a \in DOMAIN kids }
                    = { FnValue(i, fnLevel2) :
                          i \in { j \in rows : /\ FnValue(j, fnLevel1) = value1
                                               /\ Truthy(FnValue(j, fnLevel2)) } }
               /\ \A a, b \in DOMAIN kids :
                    a < b => FnFirstRow2(value1, kids[a].name)
                               < FnFirstRow2(value1, kids[b].name)
       /\ (fnDataset = MkDataset(ExampleRows, << Col1, Col2 >>)
             /\ fnLevel1 = "c1" /\ fnLevel2 = "c2") =>
            /\ [ n \in DOMAIN gs |-> gs[n].name ] = << "A", "B" >>
            /\ [ a \in DOMAIN gs[1].children |->
                   << gs[1].children[a].name, gs[1].children[a].startIndex,
                      gs[1].children[a].count >> ]
                 = << << "X", 0, 1 >>, << "Y", 1, 1 >> >>
            /\ [ a \in DOMAIN gs[2].children |->
                   << gs[2].children[a].name, gs[2].children[a].startIndex,
                      gs[2].children[a].count >> ]
                 = << << "X", 2, 2 >> >>

C11_Witness ==
  /\ fnPc = "grouped"
  /\ fnDataset = MkDataset(ExampleRows, << Col1, Col2 >>)
  /\ fnLevel1 = "c1"
  /\ fnLevel2 = "c2"
  /\ Len(fnGroups.groups) = 2
  /\ Len(fnGroups.groups[1].children) = 2

\* the keys of a group tree: every level-0 node's, then every leaf's
TreeKeys(gs) ==
  [ n \in DOMAIN gs |-> gs[n].key ]
  \o [ n \in DOMAIN LeafPairs(gs) |-> LeafPairs(gs)[n].leaf.key ]

\* C12: the keys of the nodes of a group tree are pairwise distinct, level-0
\* keys (value1) and leaf keys (value1-value2) together, also when a value
\* contains "-".
C12_KeysDistinct ==
  (fnPc # "start") =>
    LET keys == TreeKeys(fnGroups.groups)
    IN \A n, m \in DOMAIN keys : n # m => keys[n] # keys[m]

(***************************************************************************)
(* Properties of the component (checked under Spec).                       *)
(***************************************************************************)
\* C5: whenever a grouping key is empty and the effects have run to
\* quiescence, groups, items and columns are all empty and the inline
\* message is rendered instead of the list.
C5_EmptyKeyClearsState ==
  (Quiescent /\ (level1 = "" \/ level2 = "")) =>
    /\ groups = << >>
    /\ items = << >>
    /\ columns = << >>
    /\ ShowsMessage

\* C7: once the effects have run, the last dataset.setSelectedRecordIds call
\* carries exactly the identifiers of the items selected in the Selection.
C7_HostMirrorsSelection ==
  Quiescent => hostSelectedRecordIds = SelectedIds(selection)

C7_Witness ==
  /\ Quiescent
  /\ Cardinality(selection.selected) = 2
  /\ Len(hostSelectedRecordIds) = 2
  /\ hostSelectedRecordIds[1] # hostSelectedRecordIds[2]

\* C8: a double click on a rendered row calls openForm exactly once, with the
\* entityName prop and the record-set identifier of the row the activated
\* item was projected from.
C8_OpenFormForActivatedRow ==
  activation.active =>
    activation.calls = << [ entityName |-> EntityName, entityId |-> activation.row ] >>

\* C10: with both grouping keys non-empty, at quiescence groups is
\* makeGroups of the current record set and items and columns are those of
\* the current record set; when the group tree is empty nothing of an earlier
\* record set remains in state or in the Selection.
C10_DerivedStateFresh ==
  (Quiescent /\ Truthy(level1) /\ Truthy(level2)) =>
    LET made == makeColumnAndItems(dataset, level1, level2, groups)
    IN /\ groups = makeGroups(dataset, level1, level2).groups
       /\ IF groups # << >>
          THEN /\ items = made.items
               /\ columns = made.columns
               /\ selection.items = made.items
          ELSE /\ items \in { << >>, made.items }
               /\ columns \in { << >>, made.columns }
               /\ selection.items \in { << >>, made.items }

====
